---- MODULE Spec2Model ----
(***************************************************************************)
(* A model of OLABot (src/olabot.py), the per-question context management  *)
(* of the Ontario Legislature assistant, and of the scraper that writes    *)
(* its document store (src/olascrape.py).  Strings are sequences of tokens *)
(* (words, the blank " ", the asterisk "*", the newline "\n", the markdown *)
(* code fence), so that strip, replace, split, lower and the f-strings of  *)
(* the source are computed and not assumed.  Four specifications: Spec is  *)
(* the question loop of main, SpecIterate the same session with a caller   *)
(* that takes every item of the generator, SpecUnit the methods of the bot *)
(* called alone, SpecScrape a run of the scraper.                          *)
(***************************************************************************)
EXTENDS Integers, Sequences, FiniteSets, TLC

\* ------------------------------------------------------------------ bounds
\* lines of a Selector response in a session
MaxLines == 1
\* lines of a Selector response when _select_relevant_documents is called alone
MaxUnitLines == 6
\* length of the list handed to _update_current_context when called alone
MaxListLen == 6
\* question/answer exchanges a session's history may hold
MaxExchanges == 2
\* chunks of a streamed answer
MaxChunks == 1
\* exchanges in the history when _check_context_relevance is called alone
MaxUnitExchanges == 6
\* bills and sitting days of the site a scrape runs over
MaxBills == 2
MaxDates == 2

\* --------------------------------------------------------------- constants
\* self.MAX_DOCUMENT_CONTEXT = 5
MAX_DOCUMENT_CONTEXT == 5

\* ----------------------------------------------------------------- strings
SP == " "
STAR == "*"
NL == "\n"
\* the three backquotes of a markdown code fence
FENCE == "<fence>"
JSONWORD == "json"

Min(a, b) == IF a <= b THEN a ELSE b
Max(a, b) == IF a >= b THEN a ELSE b

\* Python s[:n] for n >= 0
Prefix(s, n) == SubSeq(s, 1, Min(n, Len(s)))
\* Python s[n:] for n >= 0
DropFirst(s, n) == SubSeq(s, Min(n, Len(s)) + 1, Len(s))
\* Python s[-n:] for n > 0
Suffix(s, n) == SubSeq(s, Max(Len(s) - n, 0) + 1, Len(s))
\* Python s[:-n] for n > 0
DropLast(s, n) == SubSeq(s, 1, Max(Len(s) - n, 0))

\* all sequences over S of length at most n
BoundedSeq(S, n) == UNION {[1..k -> S] : k \in 0..n}

\* str.strip(): leading and trailing whitespace removed
RECURSIVE LStrip(_)
LStrip(s) == IF s # <<>> /\ Head(s) \in {SP, NL} THEN LStrip(Tail(s)) ELSE s
RECURSIVE RStrip(_)
RStrip(s) ==
  IF s # <<>> /\ s[Len(s)] \in {SP, NL} THEN RStrip(DropLast(s, 1)) ELSE s
Strip(s) == RStrip(LStrip(s))

\* str.replace("*", "")
RECURSIVE RemoveStars(_)
RemoveStars(s) ==
  IF s = <<>> THEN <<>>
  ELSE IF Head(s) = STAR THEN RemoveStars(Tail(s))
  ELSE <<Head(s)>> \o RemoveStars(Tail(s))

\* str.split("\n"): always at least one (possibly empty) line
RECURSIVE SplitLines(_)
SplitLines(s) ==
  IF \A i \in 1..Len(s) : s[i] # NL THEN <<s>>
  ELSE LET i == CHOOSE j \in 1..Len(s) :
                  s[j] = NL /\ \A k \in 1..(j - 1) : s[k] # NL
       IN <<SubSeq(s, 1, i - 1)>> \o SplitLines(SubSeq(s, i + 1, Len(s)))

\* "\n".join(lines)
RECURSIVE JoinLines(_)
JoinLines(lines) ==
  IF lines = <<>> THEN <<>>
  ELSE IF Len(lines) = 1 THEN lines[1]
  ELSE lines[1] \o <<NL>> \o JoinLines(Tail(lines))

\* str.startswith / str.endswith
StartsWith(s, p) == Len(s) >= Len(p) /\ SubSeq(s, 1, Len(p)) = p
EndsWith(s, p) == Len(s) >= Len(p) /\ SubSeq(s, Len(s) - Len(p) + 1, Len(s)) = p

Range(s) == {s[i] : i \in 1..Len(s)}

\* --------------------------------------------------------- document store
\* The dates and bill numbers a store may hold, in the order sorted() gives
\* their strings (ISO dates sort chronologically).
DATES == <<"2024-01-01", "2024-02-01", "2024-03-01",
           "2024-04-01", "2024-05-01", "2024-06-01">>
BILLS == <<"118">>

\* scrape(): keys are f"transcript {d}" and f"bill {b[0]}"
TranscriptId(id_number) == <<"transcript", SP>> \o id_number
BillId(id_number) == <<"bill", SP>> \o id_number

\* The value scrape() stores under a key (the bill's title, sponsor and status
\* are part of its contents here).
DocumentRecord(type, id_number) ==
  [type |-> type, id_number |-> id_number, contents |-> <<type, "text">> \o id_number]

\* documents.json as scrape() writes it, for a set of dates and of bill numbers
Store(dates, bills) ==
  LET keys == {TranscriptId(<<d>>) : d \in dates} \cup {BillId(<<b>>) : b \in bills}
  IN [k \in keys |->
        IF k[1] = "transcript" THEN DocumentRecord("transcript", DropFirst(k, 2))
        ELSE DocumentRecord("bill", DropFirst(k, 2))]

\* The stores a session is constructed over: no transcript at all, and the
\* two transcripts of the end-to-end scenario.
SessionStores ==
  { Store({}, {"118"}),
    Store({"2024-01-01", "2024-06-01"}, {"118"}) }
\* One transcript more than MAX_DOCUMENT_CONTEXT, beside those.
Stores == SessionStores \cup {Store(Range(DATES), {"118"})}

\* sorted(xs) for strings that are single tokens of the sequence `order`
RECURSIVE SortedBy(_, _)
SortedBy(S, order) ==
  IF order = <<>> THEN <<>>
  ELSE (IF <<Head(order)>> \in S THEN <<<<Head(order)>>>> ELSE <<>>)
       \o SortedBy(S, Tail(order))

\* __init__: sorted id_number of the transcripts / of the bills
AvailableDates(docs) ==
  SortedBy({docs[k].id_number : k \in {x \in DOMAIN docs : docs[x].type = "transcript"}},
           DATES)
AvailableBills(docs) ==
  SortedBy({docs[k].id_number : k \in {x \in DOMAIN docs : docs[x].type = "bill"}},
           BILLS)

\* __init__: the bundle starts as the three most recent transcripts
InitialDocumentIds(dates) ==
  LET last == Suffix(dates, 3) IN [i \in 1..Len(last) |-> TranscriptId(last[i])]

\* The keys of {k: self.documents[k] for k in ids}: a dict keeps one entry per
\* key, at the position of its first occurrence.
RECURSIVE DictKeys(_)
DictKeys(ids) ==
  IF ids = <<>> THEN <<>>
  ELSE LET front == DictKeys(DropLast(ids, 1))
           k == ids[Len(ids)]
       IN IF k \in Range(front) THEN front ELSE Append(front, k)

\* documents_to_string: one delimited block per item of the dict, in its order
DocumentBlock(doc_id, doc) ==
  [start |-> doc_id, id |-> doc_id, fields |-> doc, end |-> doc_id]
documents_to_string(docs, keys) ==
  [i \in 1..Len(keys) |-> DocumentBlock(keys[i], docs[keys[i]])]

\* the slice of lines 622-624 taken before the filter of lines 610-612
ValidLines_ClipFirst(docs, text) ==
  SelectSeq(Prefix(SplitLines(RemoveStars(text)), MAX_DOCUMENT_CONTEXT),
            LAMBDA doc : Strip(doc) \in DOMAIN docs)

\* ------------------------------------------------------------ the scraper
\* generate_transcript_summary, line 197, and generate_bill_summary, lines
\* 203-218: a text made from the document's number and its contents
generate_transcript_summary(date, text) ==
  <<"Transcript from:", SP>> \o date \o <<SP, "|", SP, "digest of">> \o text
generate_bill_summary(bill_num, contents) == <<"digest of">> \o contents

\* v["summary"] = ...(v["id_number"], v.pop("contents")), lines 225-233
WithSummary(v, summary) ==
  [f \in (DOMAIN v \ {"contents"}) \cup {"summary"} |->
     IF f = "summary" THEN summary ELSE v[f]]

\* the elif branch of lines 229-233 left out: bills keep their contents
summarize_TranscriptsOnly(docs) ==
  [k \in DOMAIN docs |->
     IF "transcript" \in Range(k)
     THEN WithSummary(docs[k],
                      generate_transcript_summary(docs[k].id_number, docs[k].contents))
     ELSE docs[k]]

\* summarize, lines 221-235
summarize(docs) ==
  [k \in DOMAIN docs |->
     IF "transcript" \in Range(k)
     THEN WithSummary(docs[k],
                      generate_transcript_summary(docs[k].id_number, docs[k].contents))
     ELSE IF "bill" \in Range(k)
     THEN WithSummary(docs[k],
                      generate_bill_summary(docs[k].id_number, docs[k].contents))
     ELSE docs[k]]

\* The pages of the site.  A bill page has its status line (which may say
\* that the bill is out of order), its sponsor element and its body element,
\* or lacks one of them.
BillPages == {"complete", "out of order", "no status", "no sponsor", "no body"}
\* get_bill_names, lines 20-34: the i-th bill of the list
BillNumbers == <<"118", "119", "120">>
BillName(i, page) ==
  [id_number |-> <<BillNumbers[i]>>, title |-> <<"title", BillNumbers[i]>>,
   page |-> page]
\* The pages of one sitting day, hansard, hansard-1, ...: whether each holds
\* the transcript element.
HansardPages == {<<>>, <<TRUE>>, <<FALSE>>, <<FALSE, TRUE>>}
HansardDate(i, pages) == [date |-> <<DATES[i]>>, pages |-> pages]

\* fetch_bill_contents, lines 44-80: what the call gives for a page, the
\* AttributeError of lines 51-57 being raised outside the try
fetch_bill_contents(bill) ==
  IF bill.page = "no status" THEN [kind |-> "raise", exc |-> "AttributeError"]
  ELSE IF bill.page = "out of order"
  THEN [kind |-> "tuple", sponsor |-> <<"Withdrawn">>,
        status |-> <<"out of order">>,
        text |-> <<NL, NL, "notice">> \o bill.id_number]
  ELSE IF bill.page \in {"no sponsor", "no body"}
  THEN [kind |-> "str", text |-> <<"None">>]
  ELSE [kind |-> "tuple", sponsor |-> <<"sponsor of">> \o bill.id_number,
        status |-> <<"current status">>,
        text |-> <<"bill text">> \o bill.id_number]

\* fetch_hansard_content, lines 100-129: the text of the pages that hold it
RECURSIVE fetch_hansard_content(_, _)
fetch_hansard_content(date, pages) ==
  IF pages = <<>> THEN <<>>
  ELSE (IF Head(pages) THEN <<"hansard text">> \o date ELSE <<>>)
       \o fetch_hansard_content(date, Tail(pages))
\* line 120: one warning for each page without the transcript element
HansardWarnings(pages) == Len(SelectSeq(pages, LAMBDA found : ~found))

\* scrape, lines 258-265 and 271-275: the values stored
BillValue(bill, fetched) ==
  [type |-> "bill", id_number |-> bill.id_number, title |-> bill.title,
   sponsor |-> fetched.sponsor, status |-> fetched.status,
   contents |-> fetched.text]
TranscriptValue(date, contents) ==
  [type |-> "transcript", id_number |-> date, contents |-> contents]

\* d[key] = value
DictSet(d, key, value) ==
  [k \in DOMAIN d \cup {key} |-> IF k = key THEN value ELSE d[k]]
\* dict(a, **b), line 279
DictMerge(a, b) ==
  [k \in DOMAIN a \cup DOMAIN b |-> IF k \in DOMAIN b THEN b[k] ELSE a[k]]

\* ------------------------------------------------------- Document Selector
\* _select_relevant_documents, lines 609-612: the lines of the response, with
\* asterisks removed, whose stripped text is a key of the store
ValidLines(docs, text) ==
  SelectSeq(SplitLines(RemoveStars(text)), LAMBDA doc : Strip(doc) \in DOMAIN docs)

\* lines 617-619: the fallback slice of available_dates
FallbackDocuments(dates) == Suffix(dates, MAX_DOCUMENT_CONTEXT + 1)

\* lines 622-624: clip to max context length
ClipSelected(relevant_documents) == Prefix(relevant_documents, MAX_DOCUMENT_CONTEXT)

\* _select_relevant_documents, from the provider's response text to the result
SelectRelevantDocuments(docs, dates, text) ==
  LET relevant_documents == ValidLines(docs, text)
  IN ClipSelected(IF relevant_documents = <<>> THEN FallbackDocuments(dates)
                  ELSE relevant_documents)

\* The lines a provider answers the Selector with in a session: the key of
\* the most recent transcript, plain and with a leading blank, and an
\* identifier no document has.
HallucinatedId == TranscriptId(<<"1999-01-01">>)
SessionLines(docs) ==
  LET dates == AvailableDates(docs)
  IN {HallucinatedId}
     \cup (IF dates = <<>> THEN {}
           ELSE {TranscriptId(dates[Len(dates)]),
                 <<SP>> \o TranscriptId(dates[Len(dates)])})
\* ... and when _select_relevant_documents is called alone: the key of a bill
\* wrapped in asterisks beside those.
SelectorLines(docs) ==
  LET bills == AvailableBills(docs)
  IN SessionLines(docs)
     \cup (IF bills = <<>> THEN {}
           ELSE {<<STAR, STAR>> \o BillId(bills[1]) \o <<STAR, STAR>>})

\* -------------------------------------------------------- Relevance Oracle
USE_CURRENT_CONTEXT == "USE_CURRENT_CONTEXT"
LOAD_NEW_CONTEXT == "LOAD_NEW_CONTEXT"

\* The JSON documents a provider may put in its answer, each one token, and
\* what json.loads makes of it.  kind "dict" carries the keys it has.
JsonError == [kind |-> "error"]
JsonDict(fields) == [kind |-> "dict", fields |-> fields]
JsonDocs ==
  [use         |-> JsonDict([decision |-> USE_CURRENT_CONTEXT, reasoning |-> "r"]),
   load        |-> JsonDict([decision |-> LOAD_NEW_CONTEXT, reasoning |-> "r"]),
   maybe       |-> JsonDict([decision |-> "MAYBE", reasoning |-> "r"]),
   usenoreason |-> JsonDict([decision |-> USE_CURRENT_CONTEXT]),
   nodecision  |-> JsonDict([reasoning |-> "r"]),
   list        |-> [kind |-> "list"]]
NotJson == "Sure! Here is my decision"
Payloads == DOMAIN JsonDocs \cup {NotJson}

\* json.loads: surrounding whitespace is allowed, anything else around the one
\* document is an error
json_loads(s) ==
  LET body == Strip(s)
  IN IF Len(body) = 1 /\ body[1] \in DOMAIN JsonDocs THEN JsonDocs[body[1]]
     ELSE JsonError

\* parse_llm_json, lines 78-87
parse_llm_json(response) ==
  LET cleaned == Strip(response)
      opened == IF StartsWith(cleaned, <<FENCE, JSONWORD>>) THEN DropFirst(cleaned, 2)
                ELSE DropFirst(cleaned, 1)
      closed == IF EndsWith(opened, <<FENCE>>) THEN DropLast(opened, 1) ELSE opened
  IN IF StartsWith(cleaned, <<FENCE>>) THEN json_loads(Strip(closed))
     ELSE json_loads(cleaned)

\* decision != "LOAD_NEW_CONTEXT" for decision == "USE_CURRENT_CONTEXT"
OracleOutcome_NotLoad(text) ==
  LET response_dct == parse_llm_json(text)
  IN IF response_dct.kind # "dict" THEN "error"
     ELSE IF "decision" \notin DOMAIN response_dct.fields THEN "error"
     ELSE IF "reasoning" \notin DOMAIN response_dct.fields THEN "error"
     ELSE IF response_dct.fields.decision # LOAD_NEW_CONTEXT THEN "sufficient"
     ELSE "insufficient"

\* a response that does not parse taken as a verdict to reload
OracleOutcome_DefaultReload(text) ==
  LET response_dct == parse_llm_json(text)
  IN IF response_dct.kind # "dict" THEN "insufficient"
     ELSE IF "decision" \notin DOMAIN response_dct.fields THEN "insufficient"
     ELSE IF "reasoning" \notin DOMAIN response_dct.fields THEN "insufficient"
     ELSE IF response_dct.fields.decision = USE_CURRENT_CONTEXT THEN "sufficient"
     ELSE "insufficient"

\* _check_context_relevance, lines 561-568, from the response text to what the
\* call does: "error" when parsing or a subscript raises, else the verdict
OracleOutcome(text) ==
  LET response_dct == parse_llm_json(text)
  IN IF response_dct.kind # "dict" THEN "error"
     ELSE IF "decision" \notin DOMAIN response_dct.fields THEN "error"
     ELSE IF "reasoning" \notin DOMAIN response_dct.fields THEN "error"
     ELSE IF response_dct.fields.decision = USE_CURRENT_CONTEXT THEN "sufficient"
     ELSE "insufficient"

\* The texts a provider answers the Oracle with: a JSON document or prose,
\* bare, padded, fenced with or without the json tag, or half fenced.
OracleTexts ==
  UNION {{ <<p>>,
           <<SP, p, NL>>,
           <<FENCE, JSONWORD, NL, p, NL, FENCE>>,
           <<FENCE, NL, p, NL, FENCE, NL>>,
           <<FENCE, JSONWORD, NL, p>>,
           <<p, NL, FENCE>> } : p \in Payloads}

\* ------------------------------------------------------------------- state
VARIABLES
  documents,             \* self.documents: key -> document
  summaries,             \* self.summaries: key -> summary
  available_dates,       \* self.available_dates
  available_bills,       \* self.available_bills
  streaming,             \* self.streaming
  summaries_cache,       \* self.summaries_cache: [contents, deleted]
  scraper,               \* a run of olascrape.py, which writes the two files
  current_document_ids,  \* self.current_document_ids
  current_context,       \* self.current_context
  current_context_cache, \* self.current_context_cache: [id, contents]
  model,                 \* self.model: the id of the cache it was made from
  chat_session,          \* self.chat_session: [model, history]
  live_caches,           \* the main-context caches that exist at the provider
  pc,                    \* where the question loop / chat_interface stands
  question,              \* the question of the current turn
  conversation_history,  \* the local conversation_history of _check_context_relevance
  prompt,                \* the prompt _check_context_relevance sends
  oracle_response,       \* response.text in _check_context_relevance
  verdict,               \* what _check_context_relevance returned this turn
  selector_response,     \* response.text in _select_relevant_documents
  relevant_documents,    \* chat_interface's relevant_documents
  response,              \* chat_interface's response / full_response
  exc,                   \* the exception raised in this turn, or "none"
  out,                   \* what chat_interface has yielded this turn
  events                 \* the calls made this turn, in order

\* what no method of the bot assigns after construction
bot == <<documents, summaries, available_dates, available_bills, streaming,
         summaries_cache, scraper>>
bundle == <<current_document_ids, current_context, current_context_cache,
            model, chat_session, live_caches>>
turn == <<question, conversation_history, prompt, oracle_response, verdict, selector_response,
          relevant_documents, response, exc, out, events>>
vars == <<bot, bundle, pc, turn>>

\* a local that holds nothing
None == <<"None">>
\* no scrape is running
NoScraper == [phase |-> "off"]
\* a local list that holds nothing
NoList == <<None>>
\* no prompt has been made
NoPrompt == [question |-> None, current_document_ids |-> NoList]
CacheIds == {0, 1}
\* The text of the n-th question of a session that gets its answer: the code
\* hands a question to the provider and never looks into it.
Questions(n) == {<<"question", ToString(n)>>}
\* str.lower(), token by token
LowerToken(t) == IF t \in {"QUIT", "Quit"} THEN "quit" ELSE t
Lower(s) == [i \in 1..Len(s) |-> LowerToken(s[i])]
\* The lines typed at the n-th prompt: a question, quit in lower and in upper
\* case and, at the first prompt, the empty line and quit between blanks.
InputLines(n) ==
  Questions(n) \cup {<<"quit">>, <<"QUIT">>}
  \cup (IF n = 1 THEN {<<>>, <<SP, "quit", SP>>} ELSE {})
\* response.text of a complete answer, and chunk.text of a streamed one
AnswerTexts == {<<>>, <<"a">>}
ChunkTexts == {<<"c">>}
\* error_msg, line 691
ErrorMessage == <<"Sorry, I encountered an error">>

\* _initialize_chat_session, lines 342-345
SystemPrefix ==
  << [role |-> "user", parts |-> <<"system_prompt">>],
     [role |-> "model", parts |-> <<"I understand my role and guidelines.">>] >>

\* _initialize_chat_session, lines 342-348: the history the new session starts with
InitialHistory(previous_history) == SystemPrefix \o previous_history

\* history[1:] for history[2:]: the model's acknowledgement is carried over
PreviousHistory_KeepsAck(history) == DropFirst(history, 1)

\* _update_current_context, lines 368-370
PreviousHistory(history) == DropFirst(history, 2)

\* chat_session.send_message: the exchange the session's history grows by
Exchange(q, text) ==
  << [role |-> "user", parts |-> q], [role |-> "model", parts |-> text] >>
Exchanges(history) == (Len(history) - Len(SystemPrefix)) \div 2

\* The keys of a store in the order of the file: scrape() writes the bills,
\* then the transcripts (line 279).
StoreKeys(docs) ==
  LET bills == AvailableBills(docs)
      dates == AvailableDates(docs)
  IN [i \in 1..Len(bills) |-> BillId(bills[i])]
     \o [i \in 1..Len(dates) |-> TranscriptId(dates[i])]

\* __init__, lines 148-201: the fields of the bot constructed over one of
\* the stores
ConstructedFields(stores) ==
  /\ documents \in stores
  /\ summaries = summarize(documents)
  /\ summaries_cache = [contents |-> documents_to_string(summaries, StoreKeys(summaries)),
                        deleted |-> FALSE]
  /\ available_dates = AvailableDates(documents)
  /\ available_bills = AvailableBills(documents)
  /\ current_document_ids = InitialDocumentIds(available_dates)
  /\ current_context = documents_to_string(documents, DictKeys(current_document_ids))
  /\ current_context_cache = [id |-> 0, contents |-> current_context]
  /\ model = 0
  /\ live_caches = {0}

\* __init__, lines 148-206: the bot constructed over one of the stores
Constructed(stores) ==
  /\ ConstructedFields(stores)
  /\ chat_session = [model |-> 0, history |-> InitialHistory(<<>>)]

\* the first n exchanges of a session in which every question got its answer
RECURSIVE Dialogue(_)
Dialogue(n) ==
  IF n = 0 THEN <<>>
  ELSE Dialogue(n - 1) \o Exchange(<<"question", ToString(n)>>, <<"a">>)

\* nothing of a turn is there before the first question
NoTurn ==
  /\ question = None
  /\ conversation_history = None
  /\ prompt = NoPrompt
  /\ oracle_response = None
  /\ verdict = "none"
  /\ selector_response = None
  /\ response = None
  /\ exc = "none"
  /\ out = <<>>
  /\ events = <<>>

\* main, lines 702-707: the bot is constructed and the loop waits for input
Init ==
  /\ Constructed(SessionStores)
  /\ scraper = NoScraper
  /\ streaming \in BOOLEAN
  /\ pc = "idle"
  /\ relevant_documents = NoList
  /\ NoTurn

\* ------------------------------------------------------- the question loop
\* except narrowed to the provider's errors
Caught_ProviderOnly(e) == e = "provider"

\* chat_interface, line 684: which exceptions the catch-all handler takes
Caught(e) == TRUE
\* where control goes when e is raised inside chat_interface's try block
RaisePc(e) == IF Caught(e) THEN "except" ELSE "crashed"

\* the line is stripped before it is compared
IsQuit_Stripped(line) == Lower(Strip(line)) = <<"quit">>

\* main, line 708
IsQuit(line) == Lower(line) = <<"quit">>

\* main, lines 707-709: the line read is quit, the loop is left; nothing of
\* the last turn's generator is there any more
Quit(line) ==
  /\ pc = "idle"
  /\ IsQuit(line)
  /\ question' = line
  /\ pc' = "finally"
  /\ conversation_history' = None
  /\ prompt' = NoPrompt
  /\ oracle_response' = None
  /\ verdict' = "none"
  /\ selector_response' = None
  /\ relevant_documents' = NoList
  /\ response' = None
  /\ exc' = "none"
  /\ out' = <<>>
  /\ events' = <<>>
  /\ UNCHANGED <<bot, bundle>>

\* where the loop of main stands while it waits for a line or runs a turn
LoopPcs == {"idle", "check", "select", "update", "generate", "stream", "yield",
            "suspended", "except"}

\* the turn variables once the loop is left, events holding what ended it
LoopLeft(ended_by) ==
  /\ pc' = "finally"
  /\ conversation_history' = None
  /\ prompt' = NoPrompt
  /\ oracle_response' = None
  /\ verdict' = "none"
  /\ selector_response' = None
  /\ relevant_documents' = NoList
  /\ response' = None
  /\ exc' = "none"
  /\ out' = <<>>
  /\ events' = ended_by

\* main, lines 718-719: Ctrl-C at the prompt or anywhere in a turn;
\* KeyboardInterrupt is no Exception, so chat_interface lets it through
Interrupt ==
  /\ pc \in LoopPcs
  /\ LoopLeft(<<"KeyboardInterrupt">>)
  /\ UNCHANGED <<bot, bundle, question>>

\* main, line 707: input() meets the end of the input; EOFError is caught by
\* no clause of the try and leaves main once the finally block has run
EndOfInput ==
  /\ pc = "idle"
  /\ LoopLeft(<<"EOFError">>)
  /\ UNCHANGED <<bot, bundle, question>>

\* main, lines 720-728: both caches are deleted, then the goodbye
CleanupOk ==
  /\ pc = "finally"
  /\ live_caches' = live_caches \ {current_context_cache.id}
  /\ summaries_cache' = [summaries_cache EXCEPT !.deleted = TRUE]
  /\ events' = events \o <<"cache_delete", "summaries_cache_delete", "goodbye">>
  /\ pc' = "exited"
  /\ UNCHANGED <<documents, summaries, available_dates, available_bills, streaming,
                 scraper, current_document_ids, current_context, current_context_cache,
                 model, chat_session, question, conversation_history, prompt,
                 oracle_response, verdict, selector_response, relevant_documents,
                 response, exc, out>>

\* main, lines 721-728: current_context_cache.delete() raises (it does when
\* the cache is gone already); line 723 is skipped, the handler of line 725
\* prints, then the goodbye
CleanupContextDeleteFails ==
  /\ pc = "finally"
  /\ events' = events \o <<"cache_delete", "goodbye">>
  /\ pc' = "exited"
  /\ UNCHANGED <<bot, bundle, question, conversation_history, prompt,
                 oracle_response, verdict, selector_response, relevant_documents,
                 response, exc, out>>

\* main, lines 721-728: summaries_cache.delete() raises, then the goodbye
CleanupSummariesDeleteFails ==
  /\ pc = "finally"
  /\ live_caches' = live_caches \ {current_context_cache.id}
  /\ events' = events \o <<"cache_delete", "summaries_cache_delete", "goodbye">>
  /\ pc' = "exited"
  /\ UNCHANGED <<bot, current_document_ids, current_context, current_context_cache,
                 model, chat_session, question, conversation_history, prompt,
                 oracle_response, verdict, selector_response, relevant_documents,
                 response, exc, out>>

\* main, lines 707-717: a line that is not quit is passed to chat_interface
Ask(q) ==
  /\ pc = "idle"
  /\ ~IsQuit(q)
  /\ Exchanges(chat_session.history) < MaxExchanges
  /\ pc' = "check"
  /\ question' = q
  /\ conversation_history' = None
  /\ prompt' = NoPrompt
  /\ oracle_response' = None
  /\ verdict' = "none"
  /\ selector_response' = None
  /\ relevant_documents' = NoList
  /\ response' = None
  /\ exc' = "none"
  /\ out' = <<>>
  /\ events' = <<>>
  /\ UNCHANGED <<bot, bundle>>

\* _check_context_relevance, lines 396-406: the turns of the session's
\* history joined into the local conversation_history
ConversationHistory(history) ==
  IF history # <<>> THEN DropFirst(history, 2) ELSE <<>>

\* _check_context_relevance, lines 408-558: the values the f-string of the
\* prompt interpolates, which are the question (line 409) and the loaded
\* identifiers (line 417); the local conversation_history is not among them
OraclePrompt(q, document_ids, history_text) ==
  [question |-> q, current_document_ids |-> document_ids]

\* the early return of lines 393-394 left out
BundleIsEmpty_Never(ids) == FALSE

\* _check_context_relevance, line 393
BundleIsEmpty(ids) == ids = <<>>

\* the Selector is asked whatever the Oracle said
ChatInterfaceBranch_AlwaysSelect(v) == "select"

\* the two branches of lines 657-663 swapped
ChatInterfaceBranch_Swapped(v) == IF v = "sufficient" THEN "select" ELSE "generate"

\* chat_interface, lines 657-663: the branch taken on the Oracle's verdict
ChatInterfaceBranch(v) == IF v = "sufficient" THEN "generate" ELSE "select"

\* _check_context_relevance, lines 393-394: no context to answer the question
CheckEmptyBundle ==
  /\ pc = "check"
  /\ BundleIsEmpty(current_document_ids)
  /\ verdict' = "insufficient"
  /\ events' = Append(events, "check")
  /\ pc' = ChatInterfaceBranch(verdict')
  /\ UNCHANGED <<bot, bundle, question, conversation_history, prompt, oracle_response, selector_response,
                 relevant_documents, response, exc, out>>

\* _check_context_relevance, lines 396-568, the provider answering with text
CheckOracle(text) ==
  /\ pc = "check"
  /\ ~BundleIsEmpty(current_document_ids)
  /\ events' = events \o <<"check", "read_history", "oracle_call">>
  /\ conversation_history' = ConversationHistory(chat_session.history)
  /\ prompt' = OraclePrompt(question, current_document_ids, conversation_history')
  /\ oracle_response' = text
  /\ IF OracleOutcome(text) = "error"
     THEN /\ exc' = "parse"
          /\ pc' = RaisePc("parse")
          /\ UNCHANGED verdict
     ELSE /\ verdict' = OracleOutcome(text)
          /\ pc' = ChatInterfaceBranch(verdict')
          /\ UNCHANGED exc
  /\ UNCHANGED <<bot, bundle, question, selector_response,
                 relevant_documents, response, out>>

\* _check_context_relevance, line 560: generate_content raises
CheckOracleFails ==
  /\ pc = "check"
  /\ ~BundleIsEmpty(current_document_ids)
  /\ events' = events \o <<"check", "read_history", "oracle_call">>
  /\ conversation_history' = ConversationHistory(chat_session.history)
  /\ prompt' = OraclePrompt(question, current_document_ids, conversation_history')
  /\ exc' = "provider"
  /\ pc' = RaisePc("provider")
  /\ UNCHANGED <<bot, bundle, question, oracle_response, verdict,
                 selector_response, relevant_documents, response, out>>

\* _select_relevant_documents, lines 576-605: the prompt subscripts
\* available_dates and available_bills before any call is made
SelectIndexError ==
  /\ pc = "select"
  /\ available_dates = <<>> \/ available_bills = <<>>
  /\ events' = Append(events, "select")
  /\ conversation_history' = None
  /\ prompt' = NoPrompt
  /\ oracle_response' = None
  /\ exc' = "IndexError"
  /\ pc' = RaisePc("IndexError")
  /\ UNCHANGED <<bot, bundle, question, verdict, selector_response,
                 relevant_documents, response, out>>

\* _select_relevant_documents, lines 608-628, the provider answering with text
SelectOk(text) ==
  /\ pc = "select"
  /\ available_dates # <<>> /\ available_bills # <<>>
  /\ events' = events \o <<"select", "selector_call">>
  /\ conversation_history' = None
  /\ prompt' = NoPrompt
  /\ oracle_response' = None
  /\ selector_response' = text
  /\ relevant_documents' = SelectRelevantDocuments(documents, available_dates, text)
  /\ pc' = "update"
  /\ UNCHANGED <<bot, bundle, question, verdict, response, exc, out>>

\* _select_relevant_documents, line 608: generate_content raises
SelectFails ==
  /\ pc = "select"
  /\ available_dates # <<>> /\ available_bills # <<>>
  /\ events' = events \o <<"select", "selector_call">>
  /\ conversation_history' = None
  /\ prompt' = NoPrompt
  /\ oracle_response' = None
  /\ exc' = "provider"
  /\ pc' = RaisePc("provider")
  /\ UNCHANGED <<bot, bundle, question, verdict, selector_response,
                 relevant_documents, response, out>>

\* the slice of line 362 left out
UpdateDocumentIds_NoClip(document_ids) == document_ids

\* _update_current_context, line 362
UpdateDocumentIds(document_ids) == Prefix(document_ids, MAX_DOCUMENT_CONTEXT)

\* _update_current_context, lines 363-365: the new context string
UpdateContext(docs, ids) == documents_to_string(docs, DictKeys(ids))

\* CachedContent.create: the provider names the new cache
NewCacheId == CHOOSE i \in CacheIds : i # current_context_cache.id /\ i \notin live_caches

\* _update_current_context, lines 362-365: an identifier that is no key of
\* self.documents raises KeyError, after current_document_ids is assigned
UpdateKeyError ==
  /\ pc = "update"
  /\ \E k \in Range(UpdateDocumentIds(relevant_documents)) : k \notin DOMAIN documents
  /\ current_document_ids' = UpdateDocumentIds(relevant_documents)
  /\ events' = Append(events, "update")
  /\ selector_response' = None
  /\ exc' = "KeyError"
  /\ pc' = RaisePc("KeyError")
  /\ UNCHANGED <<bot, current_context, current_context_cache, model, chat_session,
                 live_caches, question, conversation_history, prompt, oracle_response, verdict,
                 relevant_documents, response, out>>

\* _update_current_context, lines 362-374: deleting the old cache raises
UpdateDeleteFails ==
  /\ pc = "update"
  /\ Range(UpdateDocumentIds(relevant_documents)) \subseteq DOMAIN documents
  /\ current_document_ids' = UpdateDocumentIds(relevant_documents)
  /\ current_context' = UpdateContext(documents, current_document_ids')
  /\ events' = events \o <<"update", "read_history", "cache_delete">>
  /\ selector_response' = None
  /\ exc' = "provider"
  /\ pc' = RaisePc("provider")
  /\ UNCHANGED <<bot, current_context_cache, model, chat_session, live_caches,
                 question, conversation_history, prompt, oracle_response, verdict, relevant_documents,
                 response, out>>

\* _update_current_context, lines 362-384: the old cache is deleted and
\* creating the new one raises
UpdateCreateFails ==
  /\ pc = "update"
  /\ Range(UpdateDocumentIds(relevant_documents)) \subseteq DOMAIN documents
  /\ current_document_ids' = UpdateDocumentIds(relevant_documents)
  /\ current_context' = UpdateContext(documents, current_document_ids')
  /\ live_caches' = live_caches \ {current_context_cache.id}
  /\ events' = events \o <<"update", "read_history", "cache_delete", "cache_create">>
  /\ selector_response' = None
  /\ exc' = "provider"
  /\ pc' = RaisePc("provider")
  /\ UNCHANGED <<bot, current_context_cache, model, chat_session,
                 question, conversation_history, prompt, oracle_response, verdict, relevant_documents,
                 response, out>>

\* _update_current_context, lines 362-387, every call succeeding; then
\* chat_interface, lines 666-667
UpdateOk ==
  /\ pc = "update"
  /\ Range(UpdateDocumentIds(relevant_documents)) \subseteq DOMAIN documents
  /\ current_document_ids' = UpdateDocumentIds(relevant_documents)
  /\ current_context' = UpdateContext(documents, current_document_ids')
  /\ live_caches' = (live_caches \ {current_context_cache.id}) \cup {NewCacheId}
  /\ current_context_cache' = [id |-> NewCacheId, contents |-> current_context']
  /\ model' = NewCacheId
  /\ chat_session' =
       [model |-> model',
        history |-> InitialHistory(PreviousHistory(chat_session.history))]
  /\ events' = events \o <<"update", "read_history", "cache_delete",
                           "cache_create", "updated">>
  /\ selector_response' = None
  /\ pc' = IF relevant_documents = <<>> THEN "idle" ELSE "generate"
  /\ UNCHANGED <<bot, question, conversation_history, prompt, oracle_response, verdict, relevant_documents,
                 response, exc, out>>

\* _generate_response, lines 639-651: send_message raises (it does whenever
\* the cache behind the session's model no longer exists)
GenerateFails ==
  /\ pc = "generate"
  /\ events' = events \o <<"generate", "send_message">>
  /\ conversation_history' = None
  /\ prompt' = NoPrompt
  /\ oracle_response' = None
  /\ exc' = "provider"
  /\ pc' = RaisePc("provider")
  /\ UNCHANGED <<bot, bundle, question, verdict, selector_response,
                 relevant_documents, response, out>>

\* _generate_response, lines 640-645, not streaming: the answer is complete
\* and the session's history holds the exchange
GenerateText(text) ==
  /\ pc = "generate"
  /\ ~streaming
  /\ chat_session.model \in live_caches
  /\ events' = events \o <<"generate", "send_message">>
  /\ conversation_history' = None
  /\ prompt' = NoPrompt
  /\ oracle_response' = None
  /\ response' = text
  /\ chat_session' = [chat_session EXCEPT !.history = @ \o Exchange(question, text)]
  /\ pc' = "yield"
  /\ UNCHANGED <<bot, current_document_ids, current_context, current_context_cache,
                 model, live_caches, question, verdict, selector_response,
                 relevant_documents, exc, out>>

\* _generate_response, lines 640-647, streaming: the chunks are yet to come
GenerateStream ==
  /\ pc = "generate"
  /\ streaming
  /\ chat_session.model \in live_caches
  /\ events' = events \o <<"generate", "send_message">>
  /\ conversation_history' = None
  /\ prompt' = NoPrompt
  /\ oracle_response' = None
  /\ response' = <<>>
  /\ pc' = "stream"
  /\ UNCHANGED <<bot, bundle, question, verdict, selector_response,
                 relevant_documents, exc, out>>

\* chat_interface, lines 671-672: the complete answer is yielded
YieldResponse ==
  /\ pc = "yield"
  /\ out' = Append(out, response)
  /\ pc' = "suspended"
  /\ UNCHANGED <<bot, bundle, question, conversation_history, prompt, oracle_response, verdict, selector_response,
                 relevant_documents, response, exc, events>>

\* main, line 714: next() took the one item; the generator is never resumed
DiscardGenerator ==
  /\ pc = "suspended"
  /\ pc' = "idle"
  /\ UNCHANGED <<bot, bundle, turn>>

\* chat_interface, lines 676-678: one more chunk arrives and is yielded
StreamChunk(c) ==
  /\ pc = "stream"
  /\ Len(out) < MaxChunks
  /\ response' = response \o c
  /\ out' = Append(out, c)
  /\ UNCHANGED <<bot, bundle, pc, question, conversation_history, prompt, oracle_response, verdict,
                 selector_response, relevant_documents, exc, events>>

\* chat_interface, line 676: the stream breaks
StreamFails ==
  /\ pc = "stream"
  /\ exc' = "provider"
  /\ pc' = RaisePc("provider")
  /\ UNCHANGED <<bot, bundle, question, conversation_history, prompt, oracle_response, verdict, selector_response,
                 relevant_documents, response, out, events>>

\* chat_interface, lines 676-680: the stream ends, the session's history
\* holds the exchange; chunk is unbound when no chunk came
StreamEnd ==
  /\ pc = "stream"
  /\ chat_session' = [chat_session EXCEPT !.history = @ \o Exchange(question, response)]
  /\ IF out = <<>>
     THEN /\ exc' = "UnboundLocalError"
          /\ pc' = RaisePc("UnboundLocalError")
     ELSE /\ pc' = "idle"
          /\ UNCHANGED exc
  /\ UNCHANGED <<bot, current_document_ids, current_context, current_context_cache,
                 model, live_caches, question, conversation_history, prompt, oracle_response, verdict,
                 selector_response, relevant_documents, response, out, events>>

\* chat_interface, lines 684-694: the catch-all yields the error message
HandleException ==
  /\ pc = "except"
  /\ out' = Append(out, ErrorMessage)
  /\ conversation_history' = None
  /\ prompt' = NoPrompt
  /\ oracle_response' = None
  /\ pc' = "idle"
  /\ UNCHANGED <<bot, bundle, question, verdict, selector_response,
                 relevant_documents, response, exc, events>>

\* One question after the other, each answered by chat_interface
Next ==
  \/ \E line \in InputLines(Exchanges(chat_session.history) + 1) : Quit(line)
  \/ \E q \in InputLines(Exchanges(chat_session.history) + 1) : Ask(q)
  \/ CheckEmptyBundle
  \/ \E text \in OracleTexts : CheckOracle(text)
  \/ CheckOracleFails
  \/ SelectIndexError
  \/ \E n \in 0..MaxLines : \E ls \in [1..n -> SessionLines(documents)] :
       SelectOk(JoinLines(ls))
  \/ SelectFails
  \/ UpdateKeyError
  \/ UpdateDeleteFails
  \/ UpdateCreateFails
  \/ UpdateOk
  \/ GenerateFails
  \/ \E text \in AnswerTexts : GenerateText(text)
  \/ GenerateStream
  \/ YieldResponse
  \/ DiscardGenerator
  \/ \E c \in ChunkTexts : StreamChunk(c)
  \/ StreamFails
  \/ StreamEnd
  \/ HandleException
  \/ Interrupt
  \/ EndOfInput
  \/ CleanupOk
  \/ CleanupContextDeleteFails
  \/ CleanupSummariesDeleteFails

Spec == Init /\ [][Next]_vars

\* --------------------------------------------- a caller that iterates
\* chat_interface, lines 675-680 after the yield of line 672: a caller that
\* asks the generator for a further item resumes it in the loop over
\* response, which is a str when not streaming: its characters have no
\* attribute text, and when it is empty chunk is unbound at line 680
ResumeGenerator ==
  /\ pc = "suspended"
  /\ exc' = IF response = <<>> THEN "UnboundLocalError" ELSE "AttributeError"
  /\ pc' = RaisePc(exc')
  /\ UNCHANGED <<bot, bundle, question, conversation_history, prompt, oracle_response,
                 verdict, selector_response, relevant_documents, response, out, events>>

\* The session of a caller that may take every item of the generator
\* (for item in bot.chat_interface(question)) where main takes the first.
NextIterate ==
  \/ Next
  \/ ResumeGenerator

SpecIterate == Init /\ [][NextIterate]_vars

\* ------------------------------------------------ the methods called alone
\* The identifiers of a list handed to _update_current_context: keys of the
\* store and an identifier no document has.
UnitIds(docs) ==
  LET dates == AvailableDates(docs)
      bills == AvailableBills(docs)
  IN {HallucinatedId}
     \cup (IF bills = <<>> THEN {} ELSE {BillId(bills[1])})
     \cup (IF dates = <<>> THEN {} ELSE {TranscriptId(dates[Len(dates)])})

\* A constructed bot on which _check_context_relevance, or
\* _select_relevant_documents, or _update_current_context with some list, is
\* about to run, the provider being a canned one.  The long Selector answers
\* are given to _select_relevant_documents called first;
\* _check_context_relevance is called in sessions that hold up to
\* MaxUnitExchanges exchanges.
InitUnit ==
  /\ ConstructedFields(Stores)
  /\ scraper = NoScraper
  /\ streaming = FALSE
  /\ NoTurn
  /\ \/ /\ pc = "check"
        /\ relevant_documents = NoList
        /\ \E n \in 0..MaxUnitExchanges :
             chat_session = [model |-> 0, history |-> InitialHistory(Dialogue(n))]
     \/ /\ pc = "select"
        /\ relevant_documents = NoList
        /\ chat_session = [model |-> 0, history |-> InitialHistory(<<>>)]
     \/ /\ pc = "update"
        /\ relevant_documents \in BoundedSeq(UnitIds(documents), MaxListLen)
        /\ chat_session = [model |-> 0, history |-> InitialHistory(<<>>)]

NextUnit ==
  \/ CheckEmptyBundle
  \/ \E text \in OracleTexts : CheckOracle(text)
  \/ CheckOracleFails
  \/ SelectIndexError
  \/ /\ events = <<>>
     /\ \E n \in 0..MaxUnitLines : \E ls \in [1..n -> SelectorLines(documents)] :
          SelectOk(JoinLines(ls))
  \/ SelectFails
  \/ UpdateKeyError
  \/ UpdateDeleteFails
  \/ UpdateCreateFails
  \/ UpdateOk

SpecUnit == InitUnit /\ [][NextUnit]_vars

\* ------------------------------------------------------- a run of the scraper
\* olascrape.py run as a script over a site of some bills and sitting days;
\* the bot is not running.
InitScrape ==
  /\ \E nb \in 0..MaxBills : \E bp \in [1..nb -> BillPages] :
     \E nd \in 0..MaxDates : \E hp \in [1..nd -> HansardPages] :
       scraper = [phase |-> "bills",
                  bills |-> [i \in 1..nb |-> BillName(i, bp[i])],
                  dates |-> [i \in 1..nd |-> HansardDate(i, hp[i])],
                  bill_data |-> <<>>,
                  hans_data |-> <<>>,
                  printed |-> 0,
                  documents |-> None,
                  summaries |-> None,
                  exc |-> "none"]
  /\ Constructed({Store({}, {})})
  /\ streaming = FALSE
  /\ pc = "off"
  /\ relevant_documents = NoList
  /\ NoTurn

\* scrape, lines 256-267: the next bill is fetched and stored, or the run
\* ends with the exception of fetch_bill_contents or of the unpacking
ScrapeBill ==
  /\ scraper.phase = "bills"
  /\ scraper.bills # <<>>
  /\ LET b == Head(scraper.bills)
         fetched == fetch_bill_contents(b)
     IN scraper' =
          IF fetched.kind = "raise"
          THEN [scraper EXCEPT !.phase = "raised", !.exc = fetched.exc]
          ELSE IF fetched.kind = "str"
          THEN [scraper EXCEPT !.phase = "raised", !.exc = "ValueError",
                               !.printed = @ + 1]
          ELSE [scraper EXCEPT
                  !.bills = Tail(@),
                  !.bill_data = DictSet(@, BillId(b.id_number), BillValue(b, fetched))]
  /\ UNCHANGED <<documents, summaries, available_dates, available_bills, streaming,
                 summaries_cache, bundle, pc, turn>>

\* scrape, line 269: the bills are done, the sitting days are listed
GetHansardDates ==
  /\ scraper.phase = "bills"
  /\ scraper.bills = <<>>
  /\ scraper' = [scraper EXCEPT !.phase = "dates"]
  /\ UNCHANGED <<documents, summaries, available_dates, available_bills, streaming,
                 summaries_cache, bundle, pc, turn>>

\* scrape, lines 270-277: the pages of the next sitting day are fetched
ScrapeDate ==
  /\ scraper.phase = "dates"
  /\ scraper.dates # <<>>
  /\ LET d == Head(scraper.dates)
     IN scraper' =
          [scraper EXCEPT
             !.dates = Tail(@),
             !.printed = @ + HansardWarnings(d.pages),
             !.hans_data =
               DictSet(@, TranscriptId(d.date),
                       TranscriptValue(d.date, fetch_hansard_content(d.date, d.pages)))]
  /\ UNCHANGED <<documents, summaries, available_dates, available_bills, streaming,
                 summaries_cache, bundle, pc, turn>>

\* scrape, lines 279-281
ScrapeReturn ==
  /\ scraper.phase = "dates"
  /\ scraper.dates = <<>>
  /\ scraper' = [scraper EXCEPT
                   !.phase = "returned",
                   !.documents = DictMerge(scraper.bill_data, scraper.hans_data)]
  /\ UNCHANGED <<documents, summaries, available_dates, available_bills, streaming,
                 summaries_cache, bundle, pc, turn>>

\* __main__, lines 287-293: documents.json is written, then the summaries
Summarize ==
  /\ scraper.phase = "returned"
  /\ scraper' = [scraper EXCEPT
                   !.phase = "written",
                   !.summaries = summarize(scraper.documents)]
  /\ UNCHANGED <<documents, summaries, available_dates, available_bills, streaming,
                 summaries_cache, bundle, pc, turn>>

NextScrape ==
  \/ ScrapeBill
  \/ GetHansardDates
  \/ ScrapeDate
  \/ ScrapeReturn
  \/ Summarize

SpecScrape == InitScrape /\ [][NextScrape]_vars

\* ------------------------------------------------------------------ claims
Count(s, x) == Cardinality({i \in 1..Len(s) : s[i] = x})
Called(e) == e \in Range(events)
IsKey(k) == k \in DOMAIN documents

\* C1: every element of the list _select_relevant_documents returns is,
\* exactly as returned, a key of self.documents.
C1_SelectedAreKeys ==
  selector_response # None =>
    \A i \in 1..Len(relevant_documents) : IsKey(relevant_documents[i])

\* The maxCount most recent transcripts' identifiers, most recent first
MostRecentTranscripts(dates) ==
  [i \in 1..Min(MAX_DOCUMENT_CONTEXT, Len(dates)) |->
     TranscriptId(dates[Len(dates) - i + 1])]

\* C2: when no line of the provider response is a valid identifier,
\* _select_relevant_documents returns exactly the identifiers of the
\* MAX_DOCUMENT_CONTEXT most recent transcripts, sorted descending by date.
C2_FallbackMostRecent ==
  (selector_response # None /\ ValidLines(documents, selector_response) = <<>>) =>
    relevant_documents = MostRecentTranscripts(available_dates)

\* C3: in every reachable state of a session every identifier in
\* current_document_ids is a key of self.documents.
C3_BundleIdsAreKeys ==
  \A i \in 1..Len(current_document_ids) : IsKey(current_document_ids[i])

\* C4: in every reachable state current_document_ids holds at most
\* MAX_DOCUMENT_CONTEXT identifiers, whatever the length of the list
\* _update_current_context was called with.
C4_BundleBounded == Len(current_document_ids) <= MAX_DOCUMENT_CONTEXT

\* _update_current_context was called with a list longer than
\* MAX_DOCUMENT_CONTEXT and completed
C4_Witness ==
  /\ Called("updated")
  /\ Len(relevant_documents) > MAX_DOCUMENT_CONTEXT
  /\ Len(current_document_ids) = MAX_DOCUMENT_CONTEXT

\* The history is the system prefix, once, followed by the exchanges of the
\* session in the order the questions were asked.
HistoryIntact(history) ==
  /\ Len(history) >= Len(SystemPrefix)
  /\ SubSeq(history, 1, Len(SystemPrefix)) = SystemPrefix
  /\ Len(history) = Len(SystemPrefix) + 2 * Exchanges(history)
  /\ \A i \in (Len(SystemPrefix) + 1)..Len(history) : history[i] \notin Range(SystemPrefix)
  /\ \A n \in 1..Exchanges(history) :
       /\ history[Len(SystemPrefix) + 2 * n - 1].role = "user"
       /\ history[Len(SystemPrefix) + 2 * n - 1].parts \in InputLines(n)
       /\ history[Len(SystemPrefix) + 2 * n].role = "model"

\* the step in which _update_current_context completes
UpdateCompletes == pc = "update" /\ Called("updated")'

\* C5: when _update_current_context completes, the new session's history is
\* the two-entry system prefix followed by the previous session's dialogue
\* turns, unchanged; so in every state the prefix stands once at the start and
\* no dialogue turn is lost, duplicated or reordered.
C5_HistoryPreserved ==
  /\ [](HistoryIntact(chat_session.history))
  /\ [][UpdateCompletes =>
          /\ SubSeq(chat_session.history', 1, 2) = SystemPrefix
          /\ DropFirst(chat_session.history', 2) = DropFirst(chat_session.history, 2)]_vars

\* a bundle replacement has completed in a session that holds an exchange
C5_Witness ==
  /\ Called("updated")
  /\ pc = "generate"
  /\ Exchanges(chat_session.history) >= 1

\* the active bundle as the fields of the bot hold it
ActiveBundle == <<current_document_ids, current_context, current_context_cache, model>>

\* C6: a question causes document selection and replacement of the active
\* bundle if and only if _check_context_relevance returned insufficient for
\* it; once _update_current_context has completed, the answer to that question
\* is generated against the new bundle, the Oracle not being asked again.
C6_OracleDecidesReload ==
  /\ [](/\ Called("select") => verdict = "insufficient"
        /\ verdict = "insufficient" => (pc = "select" \/ Called("select"))
        /\ Called("update") => Called("select")
        /\ Called("updated") =>
             /\ pc = "generate" \/ Called("generate")
             /\ Count(events, "check") = 1
             /\ Count(events, "oracle_call") <= 1
             /\ current_document_ids = Prefix(relevant_documents, MAX_DOCUMENT_CONTEXT)
             /\ current_context_cache.contents =
                  documents_to_string(documents, DictKeys(current_document_ids))
             /\ chat_session.model = current_context_cache.id)
  /\ [][ActiveBundle' # ActiveBundle => verdict = "insufficient"]_vars

\* a turn in which the bundle was replaced and the answer then given
C6_Witness ==
  /\ pc = "idle"
  /\ exc = "none"
  /\ events = <<"check", "read_history", "oracle_call", "select", "selector_call",
                "update", "read_history", "cache_delete", "cache_create", "updated",
                "generate", "send_message">>

\* C7: with an empty active bundle _check_context_relevance returns
\* insufficient for every question, without calling the provider and without
\* reading the dialogue history (a step that is not Ctrl-C ending the session).
C7_EmptyBundleInsufficient ==
  [][(pc = "check" /\ current_document_ids = <<>> /\ pc' # "finally") =>
       /\ verdict' = "insufficient"
       /\ events' = Append(events, "check")
       /\ conversation_history' = None
       /\ prompt' = NoPrompt
       /\ oracle_response' = None
       /\ exc' = "none"]_vars

\* _check_context_relevance has returned for an empty bundle
C7_Witness ==
  /\ current_document_ids = <<>>
  /\ events = <<"check">>
  /\ verdict = "insufficient"

\* a response that parses to an object with a decision and a reasoning field
Parseable(text) ==
  LET d == parse_llm_json(text)
  IN d.kind = "dict" /\ {"decision", "reasoning"} \subseteq DOMAIN d.fields
DecisionOf(text) == parse_llm_json(text).fields.decision

\* C8: for a non-empty bundle and a parseable provider response,
\* _check_context_relevance returns sufficient exactly when the decision field
\* equals "USE_CURRENT_CONTEXT" and insufficient for every other decision,
\* whatever the state of the session.
C8_VerdictFromDecision ==
  (oracle_response # None /\ Parseable(oracle_response)) =>
    /\ current_document_ids # <<>>
    /\ verdict = IF DecisionOf(oracle_response) = USE_CURRENT_CONTEXT
                 THEN "sufficient" ELSE "insufficient"

\* a decision outside the two expected tokens, in a session with a history
C8_Witness ==
  /\ oracle_response # None
  /\ Parseable(oracle_response)
  /\ DecisionOf(oracle_response) \notin {USE_CURRENT_CONTEXT, LOAD_NEW_CONTEXT}
  /\ verdict = "insufficient"
  /\ Exchanges(chat_session.history) >= 1

ProviderCalls ==
  {"oracle_call", "selector_call", "cache_delete", "cache_create", "send_message"}

\* C9: a failure during a turn is caught inside chat_interface, gives exactly
\* one error message and no retry of the failed call, and the loop goes on to
\* the next question.
C9_FailuresCaught ==
  /\ pc # "crashed"
  /\ exc # "none" => pc \in {"except", "idle"}
  /\ pc = "except" => exc # "none" /\ ENABLED HandleException
  /\ (pc = "idle" /\ exc # "none") =>
       Count(out, ErrorMessage) = 1 /\ out[Len(out)] = ErrorMessage
  /\ exc = "none" => Count(out, ErrorMessage) = 0
  /\ \A c \in ProviderCalls : Count(events, c) <= 1
  /\ pc \notin {"idle", "exited"} => ENABLED Next
  /\ (pc = "idle" /\ Exchanges(chat_session.history) < MaxExchanges) =>
       ENABLED (\E q \in Questions(Exchanges(chat_session.history) + 1) : Ask(q))

\* a stream that broke after a chunk: the chunk, then the one error message
C9_Witness ==
  /\ pc = "idle"
  /\ exc = "provider"
  /\ Len(out) = 2
  /\ out[2] = ErrorMessage
  /\ Called("send_message")

\* the Oracle was asked and _check_context_relevance returned no verdict
OracleFailed == Called("oracle_call") /\ verdict = "none"

\* C10: when the Oracle's provider call fails or its response does not parse,
\* _check_context_relevance returns no verdict, the error reaches
\* chat_interface's handler, no further call is made in the turn, and the
\* active bundle and the dialogue history are unchanged.
C10_OracleFailurePropagates ==
  /\ [](/\ (oracle_response # None /\ ~Parseable(oracle_response)) => OracleFailed
        /\ OracleFailed =>
             /\ exc \in {"parse", "provider"}
             /\ pc \in {"except", "idle"}
             /\ events = <<"check", "read_history", "oracle_call">>)
  /\ [][OracleFailed' => UNCHANGED bundle]_vars

\* a turn ended by a response that did not parse, in a session with a history
C10_Witness ==
  /\ OracleFailed
  /\ pc = "idle"
  /\ exc = "parse"
  /\ out = <<ErrorMessage>>
  /\ Exchanges(chat_session.history) >= 1

\* the lines of a Selector response as lines 609-610 split them
ResponseLines(text) == SplitLines(RemoveStars(text))
\* the positions of the lines that name a document
ValidPositions(lines) ==
  {i \in 1..Len(lines) : Strip(lines[i]) \in DOMAIN documents}
\* the j-th smallest member of a set of positions
NthPosition(S, j) == CHOOSE i \in S : Cardinality({k \in S : k < i}) = j - 1

\* C11: when at least one line of the provider response is valid, the list
\* _select_relevant_documents returns is the valid lines of the response in
\* the provider's order, cut to the first MAX_DOCUMENT_CONTEXT of them: no
\* reordering, and the cut is made after the filter.
C11_ValidLinesInOrder ==
  selector_response # None =>
    LET lines == ResponseLines(selector_response)
        valid == ValidPositions(lines)
    IN valid # {} =>
         /\ Len(relevant_documents) = Min(MAX_DOCUMENT_CONTEXT, Cardinality(valid))
         /\ \A j \in 1..Len(relevant_documents) :
              relevant_documents[j] = lines[NthPosition(valid, j)]

\* more valid lines than MAX_DOCUMENT_CONTEXT, not all the same, were answered
C11_Witness ==
  /\ selector_response # None
  /\ Cardinality(ValidPositions(ResponseLines(selector_response))) > MAX_DOCUMENT_CONTEXT
  /\ Len(relevant_documents) = MAX_DOCUMENT_CONTEXT
  /\ relevant_documents[1] # relevant_documents[2]

\* C12: in a scrape run a page that lacks an expected element (a bill page
\* without status, sponsor or body element, or a Hansard page without the
\* transcript element) is logged and skipped and never aborts the run.
C12_MissingElementSkipped == scraper.phase # "raised"

\* C14: for every documents mapping scrape() produces, summarize(docs) has
\* exactly the keys of docs, and every value carries a summary derived from
\* the document's contents in place of the contents, its other fields kept.
C14_SummariesParallel ==
  scraper.phase = "written" =>
    /\ DOMAIN scraper.summaries = DOMAIN scraper.documents
    /\ \A k \in DOMAIN scraper.documents :
         LET doc == scraper.documents[k]
             sum == scraper.summaries[k]
         IN /\ DOMAIN sum = (DOMAIN doc \ {"contents"}) \cup {"summary"}
            /\ "contents" \in DOMAIN doc
            /\ \A f \in DOMAIN doc \ {"contents"} : sum[f] = doc[f]
            /\ sum.summary \in {generate_bill_summary(doc.id_number, doc.contents),
                                generate_transcript_summary(doc.id_number, doc.contents)}

\* the summaries of a scrape that stored a bill and a sitting day
C14_Witness ==
  /\ scraper.phase = "written"
  /\ \E k \in DOMAIN scraper.summaries : scraper.summaries[k].type = "bill"
  /\ \E k \in DOMAIN scraper.summaries : scraper.summaries[k].type = "transcript"

\* the spellings of quit that differ in letter case only
QuitSpellings == {<<"quit">>, <<"QUIT">>, <<"Quit">>}

\* C13: in the question loop a line ends the session if and only if it is
\* quit in some letter case; every other line, the empty line and quit
\* between blanks among them, is passed to chat_interface as the question.
C13_QuitEndsSession ==
  /\ (pc \in {"finally", "exited"} /\ ~Called("KeyboardInterrupt") /\ ~Called("EOFError")) =>
       question \in QuitSpellings
  /\ pc \in LoopPcs \ {"idle"} => question \notin QuitSpellings
  /\ pc = "idle" =>
       \A line \in InputLines(Exchanges(chat_session.history) + 1) :
         IF line \in QuitSpellings
         THEN ENABLED Quit(line) /\ ~ENABLED Ask(line)
         ELSE /\ ~ENABLED Quit(line)
              /\ Exchanges(chat_session.history) < MaxExchanges => ENABLED Ask(line)

\* quit between blanks was typed and chat_interface is running on it
C13_Witness ==
  /\ pc = "check"
  /\ question = <<SP, "quit", SP>>

\* C15: after every _update_current_context, current_context holds exactly
\* one document block for each entry of current_document_ids, in the order
\* of that list, also when the list names a document more than once.
C15_BlockPerEntry ==
  Called("updated") =>
    /\ Len(current_context) = Len(current_document_ids)
    /\ \A i \in 1..Len(current_document_ids) :
         current_context[i].id = current_document_ids[i]

\* the dialogue turns a prompt holds
PromptTurns(p) ==
  IF "conversation_history" \in DOMAIN p THEN p.conversation_history ELSE <<>>

C17_BundleFieldsAgree ==
  pc = "idle" =>
    /\ \A i \in 1..Len(current_document_ids) : IsKey(current_document_ids[i])
    /\ current_context = documents_to_string(documents, DictKeys(current_document_ids))
    /\ current_context_cache.contents = current_context
    /\ model = current_context_cache.id
    /\ chat_session.model = current_context_cache.id
    /\ current_context_cache.id \in live_caches

\* C18: at most one main-context cache of the bot is live at the provider,
\* and no turn sends its question to a chat session whose model is bound to
\* a cache that has been deleted, whatever failed in an earlier turn.
C18_NoDeletedCacheInUse ==
  /\ Cardinality(live_caches) <= 1
  /\ Called("send_message") => chat_session.model \in live_caches

\* C19: a turn for which the Oracle returned sufficient makes no Selector
\* call and no cache deletion or creation and leaves current_document_ids,
\* current_context, current_context_cache, the model and the chat session
\* object as they were, the history growing by the new exchange and nothing
\* else; and no turn changes documents, summaries, available_dates,
\* available_bills or the summaries cache.
C19_SufficientTurnFrame ==
  /\ [](verdict = "sufficient" =>
          /\ \A e \in {"select", "selector_call", "update", "cache_delete",
                        "cache_create"} : ~Called(e)
          /\ (pc = "idle" /\ exc = "none") =>
               Suffix(chat_session.history, 2) = Exchange(question, response))
  /\ [][(verdict = "sufficient" \/ verdict' = "sufficient") =>
          /\ UNCHANGED <<current_document_ids, current_context,
                         current_context_cache, model, live_caches>>
          /\ chat_session'.model = chat_session.model
          /\ \/ chat_session'.history = chat_session.history
             \/ /\ Called("send_message")'
                /\ chat_session'.history =
                     chat_session.history \o Exchange(question, response')]_vars
  /\ [][pc # "finally" =>
          UNCHANGED <<documents, summaries, available_dates, available_bills,
                      summaries_cache>>]_vars

\* the second question of a session answered from the bundle as it was
C19_Witness ==
  /\ pc = "idle"
  /\ exc = "none"
  /\ verdict = "sufficient"
  /\ events = <<"check", "read_history", "oracle_call", "generate", "send_message">>
  /\ Exchanges(chat_session.history) = 2

\* C20: not streaming, the generator of a turn that got its response gives,
\* taken to its end, exactly one item, the response text, and no error
\* message, the empty response included.
C20_OneItemWhenExhausted ==
  (~streaming /\ pc = "idle" /\ response # None) =>
    /\ out = <<response>>
    /\ exc = "none"

\* C21: whenever the session of main ends, by quit, by Ctrl-C or by an
\* exception that leaves the loop, the deletion of the current context cache
\* and that of the summaries cache have each been attempted exactly once (the
\* second also when the first failed) and the goodbye was printed, last.
C21_BothDeletionsAttempted ==
  pc = "exited" =>
    /\ Count(events, "cache_delete") = 1
    /\ Count(events, "summaries_cache_delete") = 1
    /\ Count(events, "goodbye") = 1
    /\ events[Len(events)] = "goodbye"

====
